---- MODULE Spec2Model ----
(***************************************************************************)
(* A model of the turn orchestrator of the finance research agents:       *)
(* run_graph (src/src/graph/graph.py), the four graph nodes and their     *)
(* router, the tool dispatcher call_tool and the researcher / reviewer    *)
(* steps (src/src/graph/nodes.py), the guardrail validate_output          *)
(* (src/src/graph/guardrails.py) and the per-session JSON store           *)
(* SessionKVStore (src/src/graph/memory.py).                               *)
(*                                                                         *)
(* Python values that pass through json.loads / json.dumps are modelled   *)
(* as tagged records [t |-> tag, v |-> payload]; a file's content and the *)
(* TOOL_CALLS block of a draft are sequences of JSON tokens; a text that  *)
(* the guardrail scans is a sequence of chunks of characters (words and   *)
(* white space), so that lower(), rstrip(), substring search and          *)
(* concatenation act on it as they act on the characters.                 *)
(***************************************************************************)
EXTENDS Integers, Sequences, FiniteSets, TLC

(***************************************************************************)
(* JSON values as Python holds them after json.loads.                      *)
(***************************************************************************)
EmptyMap == [x \in {} |-> x]

Str(s) == [t |-> "str", v |-> s]

Lit(s) == [t |-> "lit", v |-> s]

Arr(s) == [t |-> "arr", v |-> s]

Obj(f) == [t |-> "obj", v |-> f]

\* Python's None, the value of JSON null
None == Lit("null")

IsDict(x) == x.t = "obj"

\* bool(x) for a JSON value
Truthy(x) ==
    CASE x.t = "str" -> x.v # ""
      [] x.t = "arr" -> x.v # <<>>
      [] x.t = "obj" -> DOMAIN x.v # {}
      [] OTHER -> x.v \notin {"null", "false", "0"}

\* d.get(k, default) for a dict d
DictGet(d, k, default) == IF k \in DOMAIN d.v THEN d.v[k] ELSE default

\* d[k] = val for a dict d
DictSet(d, k, val) ==
    Obj([x \in DOMAIN d.v \cup {k} |-> IF x = k THEN val ELSE d.v[x]])

(***************************************************************************)
(* JSON text as a sequence of tokens.  White space between tokens (the     *)
(* indent=2 of json.dumps) carries no token: json.loads skips it.          *)
(***************************************************************************)
Tok(k, s) == [k |-> k, s |-> s]

LBrace == Tok("p", "{")

RBrace == Tok("p", "}")

LBrack == Tok("p", "[")

RBrack == Tok("p", "]")

Colon == Tok("p", ":")

Comma == Tok("p", ",")

RECURSIVE SetToSeq(_)
\* the keys of a dict in the order json.dumps walks them (any fixed order)
SetToSeq(S) ==
    IF S = {} THEN <<>>
    ELSE LET x == CHOOSE y \in S : TRUE IN <<x>> \o SetToSeq(S \ {x})

RECURSIVE JsonDumps(_), DumpItems(_), DumpMembers(_, _)
\* json.dumps(x, ensure_ascii=False, indent=2)
JsonDumps(x) ==
    CASE x.t = "str" -> <<Tok("s", x.v)>>
      [] x.t = "lit" -> <<Tok("l", x.v)>>
      [] x.t = "arr" -> <<LBrack>> \o DumpItems(x.v) \o <<RBrack>>
      [] OTHER -> <<LBrace>> \o DumpMembers(x.v, SetToSeq(DOMAIN x.v)) \o <<RBrace>>

DumpItems(s) ==
    IF s = <<>> THEN <<>>
    ELSE IF Len(s) = 1 THEN JsonDumps(s[1])
    ELSE JsonDumps(s[1]) \o <<Comma>> \o DumpItems(Tail(s))

DumpMembers(f, keys) ==
    IF keys = <<>> THEN <<>>
    ELSE LET m == <<Tok("s", keys[1]), Colon>> \o JsonDumps(f[keys[1]]) IN
         IF Len(keys) = 1 THEN m
         ELSE m \o <<Comma>> \o DumpMembers(f, Tail(keys))

ParseFail == [ok |-> FALSE, val |-> None, next |-> 0]

ParseOk(val, next) == [ok |-> TRUE, val |-> val, next |-> next]

RECURSIVE ParseValue(_, _), ParseMembers(_, _, _), ParseItems(_, _, _)
\* the JSON decoder's scan of one value that starts at token i
ParseValue(toks, i) ==
    IF i > Len(toks) THEN ParseFail
    ELSE LET tk == toks[i] IN
         CASE tk.k = "s" -> ParseOk(Str(tk.s), i + 1)
           [] tk.k = "l" -> ParseOk(Lit(tk.s), i + 1)
           [] tk = LBrace ->
                IF i + 1 <= Len(toks) /\ toks[i + 1] = RBrace
                THEN ParseOk(Obj(EmptyMap), i + 2)
                ELSE ParseMembers(toks, i + 1, Obj(EmptyMap))
           [] tk = LBrack ->
                IF i + 1 <= Len(toks) /\ toks[i + 1] = RBrack
                THEN ParseOk(Arr(<<>>), i + 2)
                ELSE ParseItems(toks, i + 1, <<>>)
           [] OTHER -> ParseFail

ParseMembers(toks, i, acc) ==
    IF i + 1 > Len(toks) \/ toks[i].k # "s" \/ toks[i + 1] # Colon THEN ParseFail
    ELSE LET r == ParseValue(toks, i + 2) IN
         IF ~r.ok \/ r.next > Len(toks) THEN ParseFail
         ELSE LET acc2 == DictSet(acc, toks[i].s, r.val) IN
              IF toks[r.next] = RBrace THEN ParseOk(acc2, r.next + 1)
              ELSE IF toks[r.next] = Comma THEN ParseMembers(toks, r.next + 1, acc2)
              ELSE ParseFail

ParseItems(toks, i, acc) ==
    LET r == ParseValue(toks, i) IN
    IF ~r.ok \/ r.next > Len(toks) THEN ParseFail
    ELSE LET acc2 == Append(acc, r.val) IN
         IF toks[r.next] = RBrack THEN ParseOk(Arr(acc2), r.next + 1)
         ELSE IF toks[r.next] = Comma THEN ParseItems(toks, r.next + 1, acc2)
         ELSE ParseFail

\* json.loads(text): [ok |-> FALSE] stands for the JSONDecodeError it raises
JsonLoads(toks) ==
    LET r == ParseValue(toks, 1) IN
    IF r.ok /\ r.next = Len(toks) + 1 THEN [ok |-> TRUE, val |-> r.val]
    ELSE [ok |-> FALSE, val |-> None]

(***************************************************************************)
(* Texts.  A text is a sequence of chunks of characters: a word, a run of  *)
(* other characters, or one white-space character.                         *)
(***************************************************************************)
\* str.lower() on one chunk
LowerChunk(c) ==
    CASE c = "Guaranteed" -> "guaranteed"
      [] c = "RETURNS" -> "returns"
      [] c = "Inside" -> "inside"
      [] c = "Not" -> "not"
      [] c = "ADVICE" -> "advice"
      [] c = "Risks" -> "risks"
      [] c = "Sources" -> "sources"
      [] c = "Catalyst" -> "catalyst"
      [] c = "This content is for informational purposes only and is"
           -> "this content is for informational purposes only and is"
      [] c = "Do your own research and consider consulting a licensed professional."
           -> "do your own research and consider consulting a licensed professional."
      [] OTHER -> c

\* text.lower()
Lower(text) == [i \in 1..Len(text) |-> LowerChunk(text[i])]

\* needle in hay
Contains(hay, needle) ==
    \E i \in 1..(Len(hay) - Len(needle) + 1) :
        SubSeq(hay, i, i + Len(needle) - 1) = needle

IsSpace(c) == c \in {" ", "\n"}

RECURSIVE RStrip(_)
\* text.rstrip()
RStrip(text) ==
    IF text # <<>> /\ IsSpace(text[Len(text)])
    THEN RStrip(SubSeq(text, 1, Len(text) - 1))
    ELSE text

(***************************************************************************)
(* guardrails.py                                                           *)
(***************************************************************************)
DISALLOWED == << <<"guaranteed", " ", "returns">>, <<"inside", " ", "information">> >>

DISCLAIMER_NoPhrase ==
    <<"This content is for informational purposes only and is", " ",
      "not", " ", "investment", " ", "advice", ".", " ",
      "Do your own research and consider consulting a licensed professional.">>

DISCLAIMER ==
    <<"This content is for informational purposes only and is", " ",
      "not", " ", "financial", " ", "advice", ".", " ",
      "Do your own research and consider consulting a licensed professional.">>

NOT_FINANCIAL_ADVICE == <<"not", " ", "financial", " ", "advice">>

\* f"disallowed_phrase:{bad}"
FlagOf(bad) == <<"disallowed_phrase:">> \o bad

\* the places where needle starts in hay
Occurrences(hay, needle) ==
    {i \in 1..(Len(hay) - Len(needle) + 1) : SubSeq(hay, i, i + Len(needle) - 1) = needle}

RECURSIVE ScanDisallowed_PerOccurrence(_, _)
ScanDisallowed_PerOccurrence(text, i) ==
    IF i > Len(DISALLOWED) THEN <<>>
    ELSE [k \in 1..Cardinality(Occurrences(Lower(text), Lower(DISALLOWED[i])))
             |-> FlagOf(DISALLOWED[i])]
         \o ScanDisallowed_PerOccurrence(text, i + 1)

RECURSIVE ScanDisallowed(_, _)
\* the for loop of validate_output over DISALLOWED[i..]
ScanDisallowed(text, i) ==
    IF i > Len(DISALLOWED) THEN <<>>
    ELSE (IF Contains(Lower(text), Lower(DISALLOWED[i]))
          THEN <<FlagOf(DISALLOWED[i])>> ELSE <<>>)
         \o ScanDisallowed(text, i + 1)

\* the disclaimer appended whether or not the text has the phrase
validate_output_Always(text) ==
    [text  |-> RStrip(text) \o <<"\n", "\n">> \o DISCLAIMER,
     flags |-> ScanDisallowed(text, 1)]

\* the disclaimer appended to the text as it is, trailing white space kept
validate_output_NoStrip(text) ==
    [text  |-> IF ~Contains(Lower(text), NOT_FINANCIAL_ADVICE)
               THEN text \o <<"\n", "\n">> \o DISCLAIMER
               ELSE text,
     flags |-> ScanDisallowed(text, 1)]

validate_output(text) ==
    [text  |-> IF ~Contains(Lower(text), NOT_FINANCIAL_ADVICE)
               THEN RStrip(text) \o <<"\n", "\n">> \o DISCLAIMER
               ELSE text,
     flags |-> ScanDisallowed(text, 1)]

(***************************************************************************)
(* tools/critique.py                                                       *)
(***************************************************************************)
checklist(text) ==
    (IF ~Contains(Lower(text), <<"risks">>)
     THEN <<"Add a 'Risks' section with 2-4 bullets.">> ELSE <<>>)
    \o (IF ~Contains(Lower(text), <<"sources">>)
        THEN <<"Add a 'Sources' line with at least 2 citations or 'N/A'.">> ELSE <<>>)
    \o (IF ~Contains(Lower(text), <<"catalyst">>)
        THEN <<"Mention near-term catalysts (earnings, product launches).">> ELSE <<>>)

(***************************************************************************)
(* tools/finance_tools.py, tools/web_tools.py and the registry of nodes.py *)
(***************************************************************************)
\* str.upper() on a ticker symbol
Upper(s) ==
    CASE s = "nvda" -> "NVDA"
      [] OTHER -> s

\* the instant datetime.utcnow() returns, as the ISO text the tool formats
UtcNow == "utcnow"

\* a tool's outcome: the dict it returns, or the message of the exception it raises
Returned(val) == [raised |-> FALSE, val |-> val, msg |-> ""]

Raised(msg) == [raised |-> TRUE, val |-> None, msg |-> msg]

get_price(kw) ==
    IF kw["symbol"].t # "str" THEN Raised("object has no attribute 'upper'")
    ELSE Returned(Obj([symbol   |-> Str(Upper(kw["symbol"].v)),
                       price    |-> Lit("123.45"),
                       currency |-> Str("USD"),
                       as_of    |-> Str(UtcNow \o "Z"),
                       source   |-> Str("placeholder")]))

key_metrics(kw) ==
    IF kw["symbol"].t # "str" THEN Raised("object has no attribute 'upper'")
    ELSE Returned(Obj([symbol             |-> Str(Upper(kw["symbol"].v)),
                       pe_ratio           |-> Lit("28.7"),
                       market_cap_usd_b   |-> Lit("250.1"),
                       rev_growth_yoy_pct |-> Lit("22.5"),
                       notes |-> Str("Synthetic metrics for demo; connect to real data source.")]))

\* f"{x}" for a JSON value
Format(x) == IF x.t \in {"str", "lit"} THEN x.v ELSE x.t

NewsItem(query, headline, url, snippet) ==
    Obj([title   |-> Str(Format(query) \o headline),
         url     |-> Str(url),
         snippet |-> Str(snippet)])

search_news(kw) ==
    Returned(Obj([query   |-> kw["query"],
                  results |-> Arr(<<
        NewsItem(kw["query"], " - Analyst upgrades outlook", "https://example.com/news1",
                 "Analysts are more optimistic after strong Q3 results."),
        NewsItem(kw["query"], " - Supply chain update", "https://example.com/news2",
                 "Management reports improving lead times and demand visibility."),
        NewsItem(kw["query"], " - Regulatory watch", "https://example.com/news3",
                 "No material changes expected near-term, monitoring ongoing.")>>)]))

\* the signature of each registered tool: required and defaulted parameters
TOOLS ==
    [get_price   |-> [required |-> {"symbol"}, defaulted |-> {}],
     key_metrics |-> [required |-> {"symbol"}, defaulted |-> {}],
     search_news |-> [required |-> {"query"}, defaulted |-> {"top_k"}]]

\* fn(**kwargs): Python binds the keywords to fn's parameters, then runs the body
Apply(fn, kw) ==
    LET sig == TOOLS[fn] IN
    IF DOMAIN kw \ (sig.required \cup sig.defaulted) # {}
    THEN Raised(fn \o "() got an unexpected keyword argument")
    ELSE IF sig.required \ DOMAIN kw # {}
    THEN Raised(fn \o "() missing 1 required positional argument")
    ELSE CASE fn = "get_price" -> get_price(kw)
           [] fn = "key_metrics" -> key_metrics(kw)
           [] OTHER -> search_news(kw)

ErrorDict(msg) == Obj([error |-> Str(msg)])

\* the body of call_tool(tool_name, **kwargs); tool_name is a Python str
call_tool_body(tool_name, kwargs) ==
    IF tool_name \notin DOMAIN TOOLS
    THEN ErrorDict("Unknown tool: " \o tool_name)
    ELSE LET r == Apply(tool_name, kwargs) IN
         IF r.raised THEN ErrorDict(r.msg) ELSE r.val

\* the call call_tool(name, **args) of node_tool: a key of args named tool_name
\* collides with the positional parameter, and Python raises TypeError at the
\* call, before the body and its try block are entered
call_tool(name, args) ==
    IF "tool_name" \in DOMAIN args
    THEN Raised("call_tool() got multiple values for argument 'tool_name'")
    ELSE Returned(call_tool_body(name, args))

(***************************************************************************)
(* nodes.py: the researcher and reviewer steps.  What the language model   *)
(* writes is an input: out.text is the prose of a draft and out.tail the   *)
(* JSON tokens that follow a TOOL_CALLS: marker (<<>> when the draft has   *)
(* no marker).                                                             *)
(***************************************************************************)
\* str(x) / repr(x) of a dict or list, chunk by chunk
PyRepr(x) == LET toks == JsonDumps(x) IN [i \in 1..Len(toks) |-> toks[i].s]

\* the text of a draft as it is appended to the history
DraftText(out) ==
    IF out.tail = <<>> THEN out.text
    ELSE out.text \o <<"TOOL_CALLS:">> \o [i \in 1..Len(out.tail) |-> out.tail[i].s]

\* a or b
PyOr(a, b) == IF Truthy(a) THEN a ELSE b

\* re.search(r"TOOL_CALLS\s*:\s*(\[[\s\S]*?\])", out): group 1 runs from the
\* bracket that follows the marker to the first closing bracket after it
ToolCallsBlock(tail) ==
    IF tail # <<>> /\ tail[1] = LBrack /\ \E j \in 1..Len(tail) : tail[j] = RBrack
    THEN [matched |-> TRUE,
          block |-> SubSeq(tail, 1,
                           CHOOSE j \in 1..Len(tail) :
                               /\ tail[j] = RBrack
                               /\ \A k \in 1..(j - 1) : tail[k] # RBrack)]
    ELSE [matched |-> FALSE, block |-> <<>>]

RECURSIVE CleanItems_KeepUnnamed(_)
\* the normalisation loop without its test of the name
CleanItems_KeepUnnamed(items) ==
    IF items = <<>> THEN <<>>
    ELSE LET item == items[1]
             name == PyOr(DictGet(item, "tool", None), DictGet(item, "tool_name", None))
             args == DictGet(item, "args", Obj(EmptyMap))
         IN  (IF IsDict(item) /\ IsDict(args)
              THEN <<Obj([tool |-> name, args |-> args])>>
              ELSE <<>>)
             \o CleanItems_KeepUnnamed(Tail(items))

RECURSIVE CleanItems(_)
\* the normalisation loop of researcher_step over the parsed items
CleanItems(items) ==
    IF items = <<>> THEN <<>>
    ELSE LET item == items[1]
             name == PyOr(DictGet(item, "tool", None), DictGet(item, "tool_name", None))
             args == DictGet(item, "args", Obj(EmptyMap))
         IN  (IF IsDict(item) /\ Truthy(name) /\ IsDict(args)
              THEN <<Obj([tool |-> name, args |-> args])>>
              ELSE <<>>)
             \o CleanItems(Tail(items))

\* the tool calls researcher_step extracts from the model's output
ExtractToolCalls(out) ==
    LET m == ToolCallsBlock(out.tail)
        parsed == JsonLoads(m.block)
    IN  IF m.matched /\ parsed.ok THEN CleanItems(parsed.val.v) ELSE <<>>

_offline_stub_research(question, last_obs) ==
    <<"# Draft (offline)", "\n", "\n", "Task: ">> \o question
    \o (IF Truthy(last_obs)
        THEN <<"\n", "\n", "Recent tool observation: ">> \o PyRepr(last_obs)
        ELSE <<>>)
    \o <<"\n", "\n", "- Key drivers: [placeholder]", "\n",
         "- ", "Catalyst", "s: [placeholder]", "\n",
         "- ", "Risks", ": [placeholder]", "\n", "\n", "TOOL_CALLS: []">>

RECURSIVE Join(_, _)
\* sep.join(parts), sep and the parts being texts
Join(sep, parts) ==
    IF parts = <<>> THEN <<>>
    ELSE IF Len(parts) = 1 THEN <<parts[1]>>
    ELSE <<parts[1]>> \o sep \o Join(sep, Tail(parts))

_offline_stub_review(draft) ==
    LET notes == checklist(draft)
        bullet == IF notes # <<>> THEN Join(<<"\n", "- ">>, notes)
                  ELSE <<"No additional notes.">>
    IN  draft \o <<"\n", "\n", "(Reviewed offline)", "\n", "- ">> \o bullet

\* researcher_step: [draft, tool_calls]; offline is DEV_NO_LLM or not api_key
researcher_step(offline, question, last_obs, out) ==
    IF offline
    THEN [draft |-> _offline_stub_research(question, last_obs), tool_calls |-> <<>>]
    ELSE [draft |-> DraftText(out), tool_calls |-> ExtractToolCalls(out)]

\* reviewer_step: the stub offline, else what the model rewrites the draft to
reviewer_step(offline, draft, rewritten) ==
    IF offline THEN _offline_stub_review(draft) ELSE rewritten

(***************************************************************************)
(* The state: the session files, one turn's GraphState, the position of    *)
(* run_graph, and a record of the nodes the turn has run.                  *)
(***************************************************************************)
VARIABLES
    files,            \* session id -> content of <persist_dir>/<id>.json
    offline,          \* DEV_NO_LLM or no API key (fixed for the process)
    pc,               \* where run_graph is: idle, a node, persist, done, failed
    error,            \* the exception that ended the turn, "" if none
    session_id,       \* GraphState.session_id
    history,          \* GraphState.history
    scratch,          \* GraphState.scratch
    last_tool_result, \* GraphState.last_tool_result
    output,           \* GraphState.output
    guardrail_flags,  \* GraphState.guardrail_flags
    steps,            \* GraphState.steps
    response,         \* what run_graph returned, NoResponse before it returns
    prior,            \* what kv.read returned at the start of the turn
    trace,            \* the nodes run in this turn, with the calls of each
    turns,            \* turns started so far
    text,             \* the guardrail's input, when it is exercised alone
    pass1,            \* validate_output(text)
    pass2,            \* validate_output(pass1.text)
    call_name,        \* the dispatcher exercised alone: the tool name
    call_args,        \* the dispatcher exercised alone: the argument map
    call_result,      \* the dispatcher exercised alone: the outcome of call_tool
    wrote,            \* the store exercised alone: id -> the map last written
    readback,         \* the store exercised alone: id -> what read then returned
    request,          \* the body of the POST /run being served
    thread,           \* two requests served at once: the worker thread that runs
    parked,           \* two requests served at once: the turn of the other thread
    log,              \* two requests served at once: the reads and writes in order
    llm_out,          \* the tool-call extraction exercised alone: the model's output
    extracted         \* the tool-call extraction exercised alone: what was extracted

turnVars == <<pc, error, session_id, history, scratch, last_tool_result, output,
              guardrail_flags, steps, response, prior, trace, turns>>

guardVars == <<text, pass1, pass2>>

storeVars == <<wrote, readback>>

toolVars == <<call_name, call_args, call_result>>

raceVars == <<thread, parked, log>>

extractVars == <<llm_out, extracted>>

vars == <<files, offline, turnVars, guardVars, storeVars, toolVars, request, raceVars,
          extractVars>>

MAX_STEPS == 3

\* bounds of the model
MaxCalls == 2

MaxItems == 3

MaxTurns == 2

SessionIds == {"s1", "s2"}

\* the ids a record file may be named by: _path takes any string, the empty one too
RecordIds == SessionIds \cup {""}

NoFile == <<Tok("absent", "")>>

\* an Optional[str] that is set: the text, told apart from None
Text(x) == [t |-> "text", v |-> x]

\* the dict run_graph returns, told apart from None (nothing returned)
Response(r) == [t |-> "response", v |-> r]

NoText == <<"(none)">>

Message(role, content) == [role |-> role, content |-> content, meta |-> EmptyMap]

(***************************************************************************)
(* memory.py: SessionKVStore                                               *)
(***************************************************************************)
\* SessionKVStore.read
kv_read(fs, sid) ==
    IF fs[sid] = NoFile THEN Obj(EmptyMap)
    ELSE LET r == JsonLoads(fs[sid]) IN
         IF r.ok THEN r.val ELSE Obj(EmptyMap)

\* Path.write_text(new) on a file that holds old
write_text_append(old, new) == IF old = NoFile THEN new ELSE old \o new

write_text(old, new) == new

\* a store that keeps one file for all the session ids
kv_write_OneFile(fs, sid, data) ==
    [s \in DOMAIN fs |-> write_text(fs[s], JsonDumps(data))]

\* SessionKVStore.write
kv_write(fs, sid, data) ==
    [fs EXCEPT ![sid] = write_text(fs[sid], JsonDumps(data))]

(***************************************************************************)
(* graph.py: helpers, router and the edges of build_graph                  *)
(***************************************************************************)
RECURSIVE _get_last_by_role(_, _)
_get_last_by_role(hist, role) ==
    IF hist = <<>> THEN <<>>
    ELSE IF hist[Len(hist)].role = role THEN hist[Len(hist)].content
    ELSE _get_last_by_role(SubSeq(hist, 1, Len(hist) - 1), role)

router_no_cap(scr, st, ltr) ==
    IF Truthy(DictGet(scr, "tool_queue", Arr(<<>>))) THEN "tool"
    ELSE IF ltr # None THEN "research"
    ELSE "review"

router(scr, st, ltr) ==
    IF Truthy(DictGet(scr, "tool_queue", Arr(<<>>))) THEN "tool"
    ELSE IF st < MAX_STEPS /\ ltr # None THEN "research"
    ELSE "review"

\* the path maps of add_conditional_edges
ResearchEdges == [tool |-> "tool", review |-> "review"]

ToolEdges == [tool |-> "tool", research |-> "research", review |-> "review"]

\* the node a conditional edge leads to; a result the path map does not hold
\* makes the graph raise KeyError
Follow(edges, result) ==
    IF result \in DOMAIN edges THEN [pc |-> edges[result], error |-> ""]
    ELSE [pc |-> "failed", error |-> "KeyError"]

\* the queue stored in a scratch map of its own, the other keys dropped
EnqueueToolCalls_Reset(scr, tool_calls) == Obj([tool_queue |-> Arr(tool_calls)])

\* state.scratch["tool_queue"] = tool_calls
EnqueueToolCalls_Merge(scr, tool_calls) ==
    LET old == DictGet(scr, "tool_queue", Arr(<<>>)) IN
    DictSet(scr, "tool_queue",
            Arr((IF old.t = "arr" THEN old.v ELSE <<>>) \o tool_calls))

EnqueueToolCalls(scr, tool_calls) == DictSet(scr, "tool_queue", Arr(tool_calls))

Event(node, calls, items) == [node |-> node, calls |-> calls, items |-> items]

(***************************************************************************)
(* Inputs: what the callers, the language model and the disk may supply.   *)
(***************************************************************************)
RECURSIVE SeqsUpTo(_, _)
\* the sequences over S of length at most n
SeqsUpTo(S, n) ==
    IF n = 0 THEN {<<>>}
    ELSE LET shorter == SeqsUpTo(S, n - 1) IN
         shorter \cup {Append(q, x) : q \in shorter, x \in S}

GetPriceNVDA == Obj([tool |-> Str("get_price"), args |-> Obj([symbol |-> Str("NVDA")])])

\* the items a model may put in its TOOL_CALLS list
RawItems ==
    { GetPriceNVDA,
      \* the name under tool_name, and no args key: the tool misses its argument
      Obj([tool_name |-> Str("key_metrics")]),
      \* an argument named like call_tool's own parameter
      Obj([tool |-> Str("search_news"),
           args |-> Obj([query |-> Str("NVIDIA earnings"), tool_name |-> Str("news")])]),
      \* not an object
      Str("get_price") }

\* what may follow the TOOL_CALLS: marker of a draft
Blocks ==
    {JsonDumps(Arr(items)) : items \in SeqsUpTo(RawItems, MaxCalls)}
    \cup { <<>>,                                             \* no marker at all
           <<LBrack>> \o JsonDumps(GetPriceNVDA) \o <<Comma, RBrack>>,  \* trailing comma
           JsonDumps(Arr(<<Obj([tool |-> Str("search_news"),           \* a nested list
                                args |-> Obj([query |-> Arr(<<Str("NVDA")>>)])])>>)) }

DraftProse == <<"Draft", ":", " ", "key drivers, ", "Catalyst", "s, ", "Risks", ".", "\n">>

LlmDrafts == {[text |-> DraftProse, tail |-> b] : b \in Blocks}

\* the number of items a draft proposes (one for a block that does not parse)
ItemCount(out) ==
    LET m == ToolCallsBlock(out.tail)
        parsed == JsonLoads(m.block)
    IN  IF out.tail = <<>> THEN 0
        ELSE IF m.matched /\ parsed.ok THEN Len(parsed.val.v)
        ELSE 1

RECURSIVE ItemsSoFar(_)
ItemsSoFar(tr) ==
    IF tr = <<>> THEN 0 ELSE tr[1].items + ItemsSoFar(Tail(tr))

\* what the reviewing model may rewrite a draft to
LlmReviews ==
    { <<"Guaranteed", " ", "RETURNS", " ", "and", " ", "guaranteed", " ", "returns",
        ".", " ", "\n">>,
      <<"Outlook", ".", " ", "This", " ", "is", " ", "Not", " ", "financial", " ",
        "ADVICE", ".">> }

Questions ==
    { <<"Evaluate", " ", "NVDA">>,
      <<"Any", " ", "Inside", " ", "information", " ", "on", " ", "NVDA", "?">> }

\* a record left in the store by an earlier process
StoredQueue == Obj([tool_queue |-> Arr(<<GetPriceNVDA>>), note |-> Str("prefers bullets")])

\* what a session file may hold when the process starts
FileInits ==
    { NoFile,
      <<LBrace, Tok("s", "note"), Colon>>,          \* cut short: not JSON
      <<LBrack, RBrack>>,                            \* JSON, but no object
      JsonDumps(Obj([note |-> Str("prefers bullets")])),
      JsonDumps(StoredQueue) }

(***************************************************************************)
(* run_graph and the nodes.  The checkpointer handed to compile() is an    *)
(* opaque collaborator and is not modelled: every turn starts from the     *)
(* GraphState that run_graph constructs.                                   *)
(***************************************************************************)
Idle == pc \in {"idle", "done", "failed", "rejected"}

\* a turn seeded over the state the previous turn left: the fields the new
\* GraphState leaves at None keep their old values
RunGraphEnter_Resume(sid, question) ==
    /\ Idle
    /\ turns < MaxTurns
    /\ LET read == kv_read(files, sid) IN
       /\ prior' = read
       /\ session_id' = sid
       /\ turns' = turns + 1
       /\ trace' = <<>>
       /\ response' = None
       /\ guardrail_flags' = <<>>
       /\ steps' = 0
       /\ IF IsDict(read)
          THEN /\ history' = <<Message("user", question)>>
               /\ scratch' = read
               /\ pc' = "research"
               /\ error' = ""
          ELSE /\ history' = <<>>
               /\ scratch' = Obj(EmptyMap)
               /\ pc' = "failed"
               /\ error' = "ValidationError"
    /\ UNCHANGED <<last_tool_result, output>>
    /\ UNCHANGED <<files, offline, guardVars, storeVars, toolVars>>

\* run_graph, lines 227-235: read the scratch and seed the state; START -> research.
\* GraphState validates scratch as a dict and raises ValidationError otherwise.
RunGraphEnter(sid, question) ==
    /\ Idle
    /\ turns < MaxTurns
    /\ LET read == kv_read(files, sid) IN
       /\ prior' = read
       /\ session_id' = sid
       /\ turns' = turns + 1
       /\ trace' = <<>>
       /\ response' = None
       /\ last_tool_result' = None
       /\ output' = None
       /\ guardrail_flags' = <<>>
       /\ steps' = 0
       /\ IF IsDict(read)
          THEN /\ history' = <<Message("user", question)>>
               /\ scratch' = read
               /\ pc' = "research"
               /\ error' = ""
          ELSE /\ history' = <<>>
               /\ scratch' = Obj(EmptyMap)
               /\ pc' = "failed"
               /\ error' = "ValidationError"
    /\ UNCHANGED <<files, offline, guardVars, storeVars, toolVars>>

\* node_research, then the conditional edge out of "research"
NodeResearch(out) ==
    /\ pc = "research"
    /\ ItemsSoFar(trace) + ItemCount(out) <= MaxItems
    /\ LET question == _get_last_by_role(history, "user")
           r == researcher_step(offline, question, last_tool_result, out)
           scratch2 == EnqueueToolCalls(scratch, r.tool_calls)
           next == Follow(ResearchEdges, router(scratch2, steps + 1, last_tool_result))
       IN  /\ history' = Append(history, Message("assistant", r.draft))
           /\ scratch' = scratch2
           /\ steps' = steps + 1
           /\ trace' = Append(trace, Event("research", r.tool_calls,
                                           IF offline THEN 0 ELSE ItemCount(out)))
           /\ pc' = next.pc
           /\ error' = next.error
    /\ UNCHANGED <<files, offline, session_id, last_tool_result, output,
                   guardrail_flags, response, prior, turns, guardVars, storeVars, toolVars>>

\* node_research when the model raises: researcher_step is called before
\* anything is assigned to the state
AbortedResearch_CountFirst(hist, st) == [history |-> hist, steps |-> st + 1]

AbortedResearch(hist, st) == [history |-> hist, steps |-> st]

\* node_research, the model's client raising inside researcher_step (online
\* only: offline no model is called); the exception leaves invoke and run_graph
ResearchRaises ==
    /\ pc = "research"
    /\ ~offline
    /\ LET left == AbortedResearch(history, steps) IN
       /\ history' = left.history
       /\ steps' = left.steps
    /\ pc' = "failed"
    /\ error' = "CapabilityError"
    /\ UNCHANGED <<files, offline, session_id, scratch, last_tool_result, output,
                   guardrail_flags, response, prior, trace, turns, guardVars, storeVars,
                   toolVars>>

\* node_tool, then the conditional edge out of "tool"
NodeTool ==
    /\ pc = "tool"
    /\ LET queue == DictGet(scratch, "tool_queue", Arr(<<>>)) IN
       IF ~Truthy(queue)
       THEN LET next == Follow(ToolEdges, router(scratch, steps, last_tool_result)) IN
            /\ trace' = Append(trace, Event("tool", <<>>, 0))
            /\ pc' = next.pc
            /\ error' = next.error
            /\ UNCHANGED <<history, scratch, last_tool_result>>
       ELSE LET call == queue.v[1]
                rest == Arr(Tail(queue.v))
                name == PyOr(DictGet(call, "tool", None), DictGet(call, "tool_name", None))
                args == IF IsDict(DictGet(call, "args", None))
                        THEN DictGet(call, "args", Obj(EmptyMap))
                        ELSE Obj(EmptyMap)
                res == IF Truthy(name) THEN call_tool(name.v, args.v)
                       ELSE Returned(ErrorDict("Invalid tool call schema."))
                scratch2 == DictSet(scratch, "tool_queue", rest)
                next == Follow(ToolEdges, router(scratch2, steps, res.val))
            IN  /\ trace' = Append(trace, Event("tool", <<call>>, 0))
                /\ scratch' = scratch2
                /\ IF res.raised
                   THEN /\ pc' = "failed"
                        /\ error' = "TypeError"
                        /\ UNCHANGED <<history, last_tool_result>>
                   ELSE /\ last_tool_result' = res.val
                        /\ history' = Append(history,
                               Message("tool", <<Format(name), ": ">> \o PyRepr(res.val)))
                        /\ pc' = next.pc
                        /\ error' = next.error
    /\ UNCHANGED <<files, offline, session_id, output, guardrail_flags, steps,
                   response, prior, turns, guardVars, storeVars, toolVars>>

\* node_review, then the edge review -> guard
NodeReview(rewritten) ==
    /\ pc = "review"
    /\ LET last_assistant == _get_last_by_role(history, "assistant")
           draft == IF last_assistant # <<>> THEN last_assistant ELSE <<"Empty draft.">>
           improved == reviewer_step(offline, draft, rewritten)
       IN  history' = Append(history, Message("assistant", improved))
    /\ trace' = Append(trace, Event("review", <<>>, 0))
    /\ pc' = "guard"
    /\ UNCHANGED <<files, offline, error, session_id, scratch, last_tool_result, output,
                   guardrail_flags, steps, response, prior, turns, guardVars, storeVars, toolVars>>

\* node_review when the model raises: reviewer_step is called before the append
AbortedReview(hist) == hist

\* node_review, the model's client raising inside reviewer_step (online only)
ReviewRaises ==
    /\ pc = "review"
    /\ ~offline
    /\ history' = AbortedReview(history)
    /\ pc' = "failed"
    /\ error' = "CapabilityError"
    /\ UNCHANGED <<files, offline, session_id, scratch, last_tool_result, output,
                   guardrail_flags, steps, response, prior, trace, turns, guardVars,
                   storeVars, toolVars>>

\* node_guard, then the edge guard -> END
NodeGuard ==
    /\ pc = "guard"
    /\ LET checked == validate_output(_get_last_by_role(history, "assistant")) IN
       /\ guardrail_flags' = guardrail_flags \o checked.flags
       /\ output' = Text(checked.text)
    /\ trace' = Append(trace, Event("guard", <<>>, 0))
    /\ pc' = "persist"
    /\ UNCHANGED <<files, offline, error, session_id, history, scratch, last_tool_result,
                   steps, response, prior, turns, guardVars, storeVars, toolVars>>

\* run_graph, lines 240-255: persist the scratch and build the response
RunGraphReturn ==
    /\ pc = "persist"
    /\ files' = kv_write(files, session_id, scratch)
    /\ response' = Response([session_id       |-> session_id,
                             output           |-> output,
                             guardrail_flags  |-> guardrail_flags,
                             steps            |-> steps,
                             last_tool_result |-> last_tool_result])
    /\ pc' = "done"
    /\ UNCHANGED <<offline, error, session_id, history, scratch, last_tool_result, output,
                   guardrail_flags, steps, prior, trace, turns, guardVars, storeVars, toolVars>>

\* no turn in flight, and none of the components exercised alone
Quiet ==
    /\ pc = "idle"
    /\ error = ""
    /\ session_id = ""
    /\ history = <<>>
    /\ scratch = Obj(EmptyMap)
    /\ last_tool_result = None
    /\ output = None
    /\ guardrail_flags = <<>>
    /\ steps = 0
    /\ response = None
    /\ prior = None
    /\ trace = <<>>
    /\ turns = 0

GuardQuiet == text = NoText /\ pass1 = None /\ pass2 = None

StoreQuiet ==
    /\ wrote = [sid \in SessionIds |-> None]
    /\ readback = [sid \in SessionIds |-> None]

ToolQuiet == call_name = "" /\ call_args = EmptyMap /\ call_result = None

ApiQuiet == request = None

\* the fields of a thread that serves no request
FreshTurn ==
    [pc |-> "idle", error |-> "", session_id |-> "", history |-> <<>>,
     scratch |-> Obj(EmptyMap), last_tool_result |-> None, output |-> None,
     guardrail_flags |-> <<>>, steps |-> 0, response |-> None, prior |-> None,
     trace |-> <<>>, turns |-> 0]

RaceQuiet == thread = 1 /\ parked = FreshTurn /\ log = <<>>

ExtractQuiet == llm_out = None /\ extracted = None

\* the variables of the parts that are not exercised
Others == <<request, raceVars, extractVars>>

\* the service starts: the second session has no record yet
Init ==
    /\ files \in {f \in [RecordIds -> FileInits] : f["s2"] = NoFile /\ f[""] = NoFile}
    /\ offline \in BOOLEAN
    /\ Quiet
    /\ GuardQuiet
    /\ StoreQuiet
    /\ ToolQuiet
    /\ ApiQuiet
    /\ RaceQuiet
    /\ ExtractQuiet

Next ==
    \/ \E sid \in SessionIds, question \in Questions :
          RunGraphEnter(sid, question) /\ UNCHANGED Others
    \/ \E out \in LlmDrafts : NodeResearch(out) /\ UNCHANGED Others
    \/ NodeTool /\ UNCHANGED Others
    \/ \E rewritten \in LlmReviews : NodeReview(rewritten) /\ UNCHANGED Others
    \/ NodeGuard /\ UNCHANGED Others
    \/ RunGraphReturn /\ UNCHANGED Others

Spec == Init /\ [][Next]_vars

(***************************************************************************)
(* app/main.py: POST /run.  The body is validated as a RunRequest before   *)
(* run() is entered; run() hands its two fields to run_graph.              *)
(***************************************************************************)
\* RunRequest(**body): both fields are required and must be strings
RunRequest(body) ==
    \A f \in {"session_id", "question"} : f \in DOMAIN body.v /\ body.v[f].t = "str"

\* the bodies a client may post: a field may be absent, a number, or a string
Bodies ==
    { Obj(f) : f \in UNION { [K -> {None}] : K \in SUBSET {"session_id", "question"} } }
    \cup { Obj([session_id |-> sid, question |-> q]) :
              sid \in {Str(""), Str("s1"), Lit("7")},
              q \in {Str(<<>>), Str(<<"Evaluate", " ", "NVDA">>), Lit("7")} }

\* the drafts of a model that proposes at most one item
ShortDrafts == {out \in LlmDrafts : ItemCount(out) <= 1}

\* POST /run: a body that is no RunRequest is answered 422 and run() is not
\* entered; otherwise run() calls run_graph(graph, req.session_id, req.question, kv)
Run(body) ==
    /\ request' = body
    /\ IF RunRequest(body)
       THEN RunGraphEnter(body.v.session_id.v, body.v.question.v)
       ELSE /\ Idle
            /\ turns < MaxTurns
            /\ turns' = turns + 1
            /\ pc' = "rejected"
            /\ error' = "RequestValidationError"
            /\ session_id' = ""
            /\ history' = <<>>
            /\ scratch' = Obj(EmptyMap)
            /\ last_tool_result' = None
            /\ output' = None
            /\ guardrail_flags' = <<>>
            /\ steps' = 0
            /\ response' = None
            /\ prior' = None
            /\ trace' = <<>>
            /\ UNCHANGED <<files, offline, guardVars, storeVars, toolVars>>

NextRequest ==
    \/ \E body \in Bodies : Run(body) /\ UNCHANGED <<raceVars, extractVars>>
    \/ \E out \in ShortDrafts : NodeResearch(out) /\ UNCHANGED Others
    \/ NodeTool /\ UNCHANGED Others
    \/ \E rewritten \in LlmReviews : NodeReview(rewritten) /\ UNCHANGED Others
    \/ NodeGuard /\ UNCHANGED Others
    \/ RunGraphReturn /\ UNCHANGED Others

SpecRequest == Init /\ [][NextRequest]_vars

(***************************************************************************)
(* Turns in which the language model's client may raise.                   *)
(***************************************************************************)
NextFail ==
    \/ \E sid \in SessionIds, question \in Questions :
          RunGraphEnter(sid, question) /\ UNCHANGED Others
    \/ \E out \in ShortDrafts : NodeResearch(out) /\ UNCHANGED Others
    \/ ResearchRaises /\ UNCHANGED Others
    \/ NodeTool /\ UNCHANGED Others
    \/ \E rewritten \in LlmReviews : NodeReview(rewritten) /\ UNCHANGED Others
    \/ ReviewRaises /\ UNCHANGED Others
    \/ NodeGuard /\ UNCHANGED Others
    \/ RunGraphReturn /\ UNCHANGED Others

SpecFail == Init /\ [][NextFail]_vars

(***************************************************************************)
(* Two requests served at once.  run() is a plain function, so the server  *)
(* runs each request on a worker thread; the threads share the store's     *)
(* files and nothing else of a turn.  The turn variables are those of the  *)
(* thread that runs; parked holds those of the other thread, and Switch    *)
(* hands the processor over.  Each thread serves one request.              *)
(***************************************************************************)
\* the turn of the running thread, as a record
Running ==
    [pc |-> pc, error |-> error, session_id |-> session_id, history |-> history,
     scratch |-> scratch, last_tool_result |-> last_tool_result, output |-> output,
     guardrail_flags |-> guardrail_flags, steps |-> steps, response |-> response,
     prior |-> prior, trace |-> trace, turns |-> turns]

\* the turn of thread t
Turn(t) == IF t = thread THEN Running ELSE parked

Access(op, t, sid) == [op |-> op, thread |-> t, sid |-> sid]

Switch ==
    /\ thread' = 3 - thread
    /\ parked' = Running
    /\ pc' = parked.pc
    /\ error' = parked.error
    /\ session_id' = parked.session_id
    /\ history' = parked.history
    /\ scratch' = parked.scratch
    /\ last_tool_result' = parked.last_tool_result
    /\ output' = parked.output
    /\ guardrail_flags' = parked.guardrail_flags
    /\ steps' = parked.steps
    /\ response' = parked.response
    /\ prior' = parked.prior
    /\ trace' = parked.trace
    /\ turns' = parked.turns
    /\ UNCHANGED <<files, offline, guardVars, storeVars, toolVars, request, log,
                   extractVars>>

RaceEnter(sid, question) ==
    /\ turns = 0
    /\ RunGraphEnter(sid, question)
    /\ log' = Append(log, Access("read", thread, sid))
    /\ UNCHANGED <<thread, parked, request, extractVars>>

RaceReturn ==
    /\ RunGraphReturn
    /\ log' = Append(log, Access("write", thread, session_id))
    /\ UNCHANGED <<thread, parked, request, extractVars>>

\* a model that proposes nothing, or the one call of the prompt's example
RaceDrafts == {out \in LlmDrafts : out.tail \in {<<>>, JsonDumps(Arr(<<GetPriceNVDA>>))}}

RaceReviews == {r \in LlmReviews : Contains(Lower(r), NOT_FINANCIAL_ADVICE)}

NextRace ==
    \/ \E sid \in SessionIds : RaceEnter(sid, <<"Evaluate", " ", "NVDA">>)
    \/ \E out \in RaceDrafts : NodeResearch(out) /\ UNCHANGED Others
    \/ NodeTool /\ UNCHANGED Others
    \/ \E rewritten \in RaceReviews : NodeReview(rewritten) /\ UNCHANGED Others
    \/ NodeGuard /\ UNCHANGED Others
    \/ RaceReturn
    \/ Switch

SpecRace == Init /\ [][NextRace]_vars

(***************************************************************************)
(* The guardrail exercised alone: validate_output applied to a text, then  *)
(* to its own output.                                                      *)
(***************************************************************************)
MaxSegs == 3

Segments ==
    { <<"guaranteed">>, <<" ">>, <<"returns">>, <<"\n">>, <<"x">>,
      <<"Guaranteed", " ", "RETURNS">>,
      <<"Inside", " ", "information">>,
      <<"Not", " ", "financial", " ", "ADVICE">>,
      <<"not", " ", "financial">>,
      <<" ", "advice">> }

RECURSIVE Concat(_)
Concat(parts) == IF parts = <<>> THEN <<>> ELSE parts[1] \o Concat(Tail(parts))

Texts == {Concat(parts) : parts \in SeqsUpTo(Segments, MaxSegs)}

\* a result of validate_output, told apart from None
Checked(r) == [t |-> "checked", v |-> r]

InitGuard ==
    /\ files = [sid \in RecordIds |-> NoFile]
    /\ offline = FALSE
    /\ Quiet
    /\ text \in Texts
    /\ pass1 = None
    /\ pass2 = None
    /\ StoreQuiet
    /\ ToolQuiet
    /\ ApiQuiet
    /\ RaceQuiet
    /\ ExtractQuiet

ValidateOnce ==
    /\ pass1 = None
    /\ pass1' = Checked(validate_output(text))
    /\ UNCHANGED <<files, offline, turnVars, text, pass2, storeVars, toolVars>>

ValidateAgain ==
    /\ pass1 # None
    /\ pass2 = None
    /\ pass2' = Checked(validate_output(pass1.v.text))
    /\ UNCHANGED <<files, offline, turnVars, text, pass1, storeVars, toolVars>>

NextGuard ==
    \/ ValidateOnce /\ UNCHANGED Others
    \/ ValidateAgain /\ UNCHANGED Others

SpecGuard == InitGuard /\ [][NextGuard]_vars

(***************************************************************************)
(* The session store exercised alone: writes of any map, and reads.        *)
(***************************************************************************)
StoreKeys == {"note", "tool_queue"}

JsonValues ==
    { Str("prefers bullets"), None,
      Arr(<<GetPriceNVDA, Str("x")>>),
      Obj([depth |-> Arr(<<Obj([k |-> Lit("3")])>>)]) }

JsonMaps == {Obj(f) : f \in UNION {[K -> JsonValues] : K \in SUBSET StoreKeys}}

\* what write was given, and whether it wrote over a record
Wrote(data, over) == [t |-> "wrote", v |-> data, over |-> over]

\* what read returned
Got(x) == [t |-> "got", v |-> x]

InitStore ==
    /\ files \in {f \in [RecordIds -> FileInits] : f[""] = NoFile}
    /\ offline = FALSE
    /\ Quiet
    /\ GuardQuiet
    /\ StoreQuiet
    /\ ToolQuiet
    /\ ApiQuiet
    /\ RaceQuiet
    /\ ExtractQuiet

KvWrite(sid, data) ==
    /\ files' = kv_write(files, sid, data)
    /\ wrote' = [wrote EXCEPT ![sid] = Wrote(data, files[sid] # NoFile)]
    /\ readback' = [readback EXCEPT ![sid] = None]
    /\ UNCHANGED <<offline, turnVars, guardVars, toolVars>>

KvRead(sid) ==
    /\ wrote[sid] # None
    /\ readback' = [readback EXCEPT ![sid] = Got(kv_read(files, sid))]
    /\ UNCHANGED <<files, offline, turnVars, guardVars, wrote, toolVars>>

NextStore ==
    \/ \E sid \in SessionIds, data \in JsonMaps : KvWrite(sid, data) /\ UNCHANGED Others
    \/ \E sid \in SessionIds : KvRead(sid) /\ UNCHANGED Others

SpecStore == InitStore /\ [][NextStore]_vars

(***************************************************************************)
(* The dispatcher exercised alone: call_tool(name, **args) as node_tool    *)
(* calls it, for the names and argument maps a queued call may hold.       *)
(***************************************************************************)
ToolNames == {"get_price", "key_metrics", "search_news", "lookup"}

ArgKeys == {"symbol", "query", "top_k", "tool_name", "period"}

ArgValues == {Str("nvda"), Lit("3")}

ArgMaps == UNION {[K -> ArgValues] : K \in SUBSET ArgKeys}

\* an outcome of call_tool, told apart from None
Outcome(r) == [t |-> "outcome", v |-> r]

InitTool ==
    /\ files = [sid \in RecordIds |-> NoFile]
    /\ offline = FALSE
    /\ Quiet
    /\ GuardQuiet
    /\ StoreQuiet
    /\ ApiQuiet
    /\ RaceQuiet
    /\ ExtractQuiet
    /\ call_name \in ToolNames
    /\ call_args \in ArgMaps
    /\ call_result = None

Invoke ==
    /\ call_result = None
    /\ call_result' = Outcome(call_tool(call_name, call_args))
    /\ UNCHANGED <<files, offline, turnVars, guardVars, storeVars, call_name, call_args>>

NextTool == Invoke /\ UNCHANGED Others

SpecTool == InitTool /\ [][NextTool]_vars

(***************************************************************************)
(* The tool-call extraction of researcher_step exercised alone, online,    *)
(* on the outputs a model may write.                                       *)
(***************************************************************************)
MaxProposed == 2

\* the shapes an item of a TOOL_CALLS list may take
ProposalItems ==
    { GetPriceNVDA,
      Obj([tool_name |-> Str("key_metrics"), args |-> Obj([symbol |-> Str("NVDA")])]),
      Obj([tool_name |-> Str("key_metrics")]),                          \* no args key
      Obj([tool |-> Str(""), args |-> Obj(EmptyMap)]),                  \* empty name
      Obj([args |-> Obj([symbol |-> Str("NVDA")])]),                    \* no name
      Obj([tool |-> Str("get_price"), args |-> Str("NVDA")]),           \* args no map
      Str("get_price") }                                                \* no object

\* what may follow the TOOL_CALLS: marker
ProposalBlocks ==
    {JsonDumps(Arr(items)) : items \in SeqsUpTo(ProposalItems, MaxProposed)}
    \cup { <<>>,                                                        \* no marker
           <<LBrack>> \o JsonDumps(GetPriceNVDA) \o <<Comma, RBrack>>,  \* trailing comma
           <<LBrack>> \o JsonDumps(GetPriceNVDA),                       \* never closed
           JsonDumps(GetPriceNVDA),                                     \* no list
           JsonDumps(Arr(<<Obj([tool |-> Str("search_news"),           \* a nested list
                                args |-> Obj([query |-> Arr(<<Str("NVDA")>>)])])>>)) }

LlmOutputs == {[text |-> DraftProse, tail |-> b] : b \in ProposalBlocks}

\* the tool_calls researcher_step returned, told apart from None
Calls(q) == [t |-> "calls", v |-> q]

InitExtract ==
    /\ files = [sid \in RecordIds |-> NoFile]
    /\ offline = FALSE
    /\ Quiet
    /\ GuardQuiet
    /\ StoreQuiet
    /\ ToolQuiet
    /\ ApiQuiet
    /\ RaceQuiet
    /\ llm_out \in LlmOutputs
    /\ extracted = None

Extract ==
    /\ extracted = None
    /\ extracted' = Calls(researcher_step(offline, <<>>, None, llm_out).tool_calls)
    /\ UNCHANGED <<files, offline, turnVars, guardVars, storeVars, toolVars, request,
                   raceVars, llm_out>>

NextExtract == Extract

SpecExtract == InitExtract /\ [][NextExtract]_vars

(***************************************************************************)
(* What the record of a turn shows.                                        *)
(***************************************************************************)
Nodes(tr) == [i \in 1..Len(tr) |-> tr[i].node]

Count(tr, node) == Cardinality({i \in 1..Len(tr) : tr[i].node = node})

IsPrefix(a, b) == Len(a) <= Len(b) /\ SubSeq(b, 1, Len(a)) = a

Ended == pc \in {"done", "failed"}

\* the research visits of the turn so far proposed no tool call
NoToolProposed ==
    /\ trace # <<>>
    /\ \A i \in 1..Len(trace) : trace[i].node = "research" => trace[i].calls = <<>>

\* a tool visit of this turn ended in an {"error": ...} result
ToolErrorSeen ==
    \E i \in 1..Len(history) :
        /\ history[i].role = "tool"
        /\ Contains(history[i].content, <<"{", "error", ":">>)

\* a session file that is absent, not JSON, or JSON but no object
BadRecord(f) == f = NoFile \/ ~JsonLoads(f).ok \/ ~IsDict(JsonLoads(f).val)

(***************************************************************************)
(* The claims.                                                             *)
(***************************************************************************)

\* C1: steps counts the RESEARCH actions executed in the turn and never
\* exceeds MAX_STEPS, and a response carries exactly that count.
C1_StepsCountResearch ==
    /\ steps = Count(trace, "research")
    /\ steps <= MAX_STEPS
    /\ response # None =>
          /\ response.v.steps = Count(trace, "research")
          /\ response.v.steps <= MAX_STEPS

\* a turn has returned after MAX_STEPS research visits
C1_Witness == response # None /\ response.v.steps = MAX_STEPS

\* C2: a turn that entered RESEARCH never fails before GUARD, whatever the
\* draft capability proposes: at most MAX_STEPS research visits, each followed
\* by at most as many TOOL visits as it proposed.  (Stated for the turns whose
\* tool calls all return; a call that raises in the dispatcher is C6.)
C2_TurnReachesGuard ==
    /\ Count(trace, "research") <= MAX_STEPS
    /\ \A i \in 1..Len(trace) :
          trace[i].node = "research" =>
             \A k \in 1..(Len(trace) - i) :
                (\A j \in 1..k : trace[i + j].node = "tool") => k <= Len(trace[i].calls)
    /\ ~(pc = "failed" /\ Count(trace, "research") > 0 /\ error # "TypeError")

\* C3: with get_price for NVDA proposed at the first research visit and
\* nothing after, the turn runs RESEARCH, TOOL, RESEARCH, REVIEW, GUARD and
\* returns steps = 2, a last_tool_result and an output with the disclaimer.
C3_ScenarioTrace ==
    LET scenario ==
            /\ ~offline
            /\ trace # <<>>
            /\ trace[1].calls = <<GetPriceNVDA>>
            /\ trace[1].items = 1
            /\ \A i \in 2..Len(trace) :
                  trace[i].node = "research" => trace[i].calls = <<>>
    IN  (scenario /\ Ended) =>
           /\ pc = "done"
           /\ Nodes(trace) = <<"research", "tool", "research", "review", "guard">>
           /\ response.v.steps = 2
           /\ response.v.last_tool_result # None
           /\ Contains(Lower(response.v.output.v), NOT_FINANCIAL_ADVICE)

C5_DrainInOrder ==
    \A i \in 1..Len(trace) :
       trace[i].node = "research" =>
          LET q == trace[i].calls
              rest == Len(trace) - i
          IN  /\ \A k \in 1..Len(q) :
                    k <= rest => trace[i + k] = Event("tool", <<q[k]>>, 0)
              /\ rest > Len(q) => trace[i + Len(q) + 1].node # "tool"
              /\ Ended => rest >= Len(q)

\* C6: call_tool never raises: it returns a dict for every name and argument
\* map, {"error": "Unknown tool: <name>"} for a name the registry lacks.
C6_InvokeReturnsMap ==
    call_result # None =>
       /\ ~call_result.v.raised
       /\ IsDict(call_result.v.val)
       /\ call_name \notin DOMAIN TOOLS =>
             call_result.v.val = ErrorDict("Unknown tool: " \o call_name)

\* C7: a tool error never aborts the turn: after a TOOL visit that ended in
\* an {"error": ...} result the turn does not fail, and it returns an output.
C7_ToolErrorNeverAborts ==
    ToolErrorSeen =>
       /\ last_tool_result # None
       /\ pc # "failed"
       /\ pc = "done" => response.v.output # None

\* C8: read after write returns the map written, whatever was stored before.
C8_WriteThenRead ==
    \A sid \in SessionIds :
       readback[sid] # None => readback[sid].v = wrote[sid].v

\* a map with both keys was written over an earlier record and read back
C8_Witness ==
    \E sid \in SessionIds :
       /\ readback[sid] # None
       /\ wrote[sid].over
       /\ DOMAIN wrote[sid].v.v = StoreKeys

\* C9: a session record that is absent, not JSON or not a JSON object reads
\* as the empty map, and the turn is not failed by it.
C9_BadRecordReadsEmpty ==
    (pc \in {"research", "tool", "review", "guard", "persist", "failed"}
        /\ BadRecord(files[session_id])) =>
       /\ prior = Obj(EmptyMap)
       /\ error # "ValidationError"

\* C10: validate_output applied to its own output changes neither the text
\* nor the flags.
C10_ValidateIdempotent ==
    pass2 # None =>
       /\ pass2.v.text = pass1.v.text
       /\ pass2.v.flags = pass1.v.flags

\* the first pass stripped trailing white space, appended the disclaimer and
\* raised a flag
C10_Witness ==
    /\ pass2 # None
    /\ Len(text) > 0
    /\ IsSpace(text[Len(text)])
    /\ pass1.v.text # text
    /\ Len(pass1.v.flags) = 1

\* C11: the flags of a response are "disallowed_phrase:<p>" for exactly the
\* phrases p of DISALLOWED that occur, in any case, in the text REVIEW
\* produced: one flag per such phrase however often it occurs, none for a
\* phrase that is absent.
C11_FlagsMatchFinalText ==
    response # None =>
       LET final == history[Len(history)]
           flags == response.v.guardrail_flags
           present == {i \in 1..Len(DISALLOWED) :
                          Occurrences(Lower(final.content), DISALLOWED[i]) # {}}
       IN  /\ final.role = "assistant"
           /\ trace[Len(trace) - 1].node = "review"
           /\ \A i \in present :
                 Cardinality({k \in 1..Len(flags) : flags[k] = FlagOf(DISALLOWED[i])}) = 1
           /\ \A k \in 1..Len(flags) : \E i \in present : flags[k] = FlagOf(DISALLOWED[i])

\* a response whose final text holds "guaranteed returns" twice, in two cases
C11_Witness ==
    /\ response # None
    /\ Cardinality(Occurrences(Lower(history[Len(history)].content), DISALLOWED[1])) = 2
    /\ response.v.guardrail_flags = <<FlagOf(DISALLOWED[1])>>

\* C12: a request whose session id or question is empty is rejected before
\* run_graph is entered: no record is read or written, RESEARCH does not run
\* and no turn result is produced.
C12_EmptyRequestRejected ==
    LET empty_sid == /\ "session_id" \in DOMAIN request.v
                     /\ request.v.session_id.t = "str"
                     /\ request.v.session_id.v = ""
        empty_question == /\ "question" \in DOMAIN request.v
                          /\ request.v.question.t = "str"
                          /\ request.v.question.v = <<>>
    IN  (request # None /\ (empty_sid \/ empty_question)) =>
           /\ pc = "rejected"
           /\ prior = None
           /\ trace = <<>>
           /\ response = None
           /\ files[""] = NoFile

\* a turn has been seeded and no node has run yet
Begun == pc = "research" /\ trace = <<>>

C14_SameTransitionEverywhere ==
    LET queue == DictGet(scratch, "tool_queue", Arr(<<>>))
        expected == IF queue.v # <<>> THEN "tool"
                    ELSE IF steps < 3 /\ last_tool_result # None THEN "research"
                    ELSE "review"
    IN  (/\ trace # <<>>
         /\ trace[Len(trace)].node \in {"research", "tool"}
         /\ error # "TypeError") => pc = expected

\* a TOOL visit of this turn executed a call
ToolExecuted == \E i \in 1..Len(trace) : trace[i].node = "tool" /\ trace[i].calls # <<>>

\* C15: once a tool has run in the turn, RESEARCH is run again after a
\* research visit that proposed nothing, until steps reaches MAX_STEPS: a
\* completed turn in which a TOOL visit executed a call ends with steps = 3,
\* a completed turn with no TOOL visit ends with steps = 1.
C15_ResearchRerunToCap ==
    /\ (/\ ToolExecuted
        /\ trace[Len(trace)].node = "research"
        /\ trace[Len(trace)].calls = <<>>
        /\ steps < MAX_STEPS) => pc = "research"
    /\ pc = "done" =>
          response.v.steps = (IF ToolExecuted THEN MAX_STEPS ELSE 1)

\* an item with a non-empty tool name and an argument map
WellFormedItem(item) ==
    /\ item.t = "obj"
    /\ \E k \in {"tool", "tool_name"} :
          k \in DOMAIN item.v /\ item.v[k].t = "str" /\ item.v[k].v # ""
    /\ "args" \in DOMAIN item.v
    /\ item.v["args"].t = "obj"

\* the items of the proposal block, <<>> if the block is absent or does not parse
ProposedItems(out) ==
    LET m == ToolCallsBlock(out.tail)
        parsed == JsonLoads(m.block)
    IN  IF m.matched /\ parsed.ok THEN parsed.val.v ELSE <<>>

RECURSIVE WellFormedOnly(_)
WellFormedOnly(items) ==
    IF items = <<>> THEN <<>>
    ELSE (IF WellFormedItem(items[1]) THEN <<items[1]>> ELSE <<>>)
         \o WellFormedOnly(Tail(items))

\* C16: the tool queue holds exactly the proposed items that have a non-empty
\* tool name and an argument map, in order: an item that is no object, has no
\* or an empty name, has args that are no map, or has no args key is dropped,
\* and a block that does not parse gives an empty queue.
C16_OnlyWellFormedItemsQueued ==
    extracted # None =>
       LET kept == WellFormedOnly(ProposedItems(llm_out)) IN
       /\ Len(extracted.v) = Len(kept)
       /\ \A i \in 1..Len(extracted.v) :
             /\ i <= Len(kept)
             /\ extracted.v[i].v["args"] = kept[i].v["args"]
             /\ extracted.v[i].v["tool"] \in {kept[i].v[k] : k \in DOMAIN kept[i].v \ {"args"}}

\* the two threads served one turn each on the same session id, both read
\* the record before either wrote, and both have written
Raced ==
    /\ Len(log) = 4
    /\ log[1].op = "read"
    /\ log[2].op = "read"
    /\ log[1].sid = log[2].sid
    /\ Turn(1).pc = "done"
    /\ Turn(2).pc = "done"

\* the keys whose value the turn u changed in the scratch it read
Updated(u) ==
    {k \in DOMAIN u.scratch.v : k \notin DOMAIN u.prior.v \/ u.prior.v[k] # u.scratch.v[k]}

Apart ==
    /\ Turn(1).pc # "idle"
    /\ Turn(2).pc # "idle"
    /\ Turn(1).session_id # Turn(2).session_id

\* C18: two turns on different session ids do not interfere: while a turn
\* runs, the record of its id stays as the turn read it, whatever the other
\* turn does; once it has returned, the record of its id is the scratch it
\* wrote (what it read, with its own tool_queue), and its response is for its
\* own id; every read and write in the log is on the id of the turn's thread.
C18_SessionsApart ==
    Apart =>
       /\ \A t \in {1, 2} :
             LET u == Turn(t) IN
             /\ u.pc \in {"research", "tool", "review", "guard", "persist", "failed"} =>
                   kv_read(files, u.session_id) = u.prior
             /\ u.pc = "done" =>
                   /\ files[u.session_id] = JsonDumps(u.scratch)
                   /\ u.scratch = DictSet(u.prior, "tool_queue", Arr(<<>>))
                   /\ u.response.v.session_id = u.session_id
       /\ \A i \in 1..Len(log) : log[i].sid = Turn(log[i].thread).session_id

\* the two turns on different ids read in turn, then wrote in turn
C18_Witness ==
    /\ Apart
    /\ Len(log) = 4
    /\ log[1].op = "read"
    /\ log[2].op = "read"
    /\ Turn(1).pc = "done"
    /\ Turn(2).pc = "done"
    /\ Turn(1).prior # Turn(2).prior

\* C19: a model that raises during RESEARCH or REVIEW leaves the turn's state
\* as it was before that action: history, the scratch with its tool queue,
\* steps, last_tool_result, output and guardrail_flags are unchanged; no
\* result is returned, the next thing the thread does is start another turn,
\* and no node changes the session files, so the record is as it was before
\* the turn started.
C19_CapabilityFailureAtomic ==
    [][/\ pc \in {"research", "tool", "review", "guard"} => files' = files
       /\ (pc \in {"research", "review"} /\ error' = "CapabilityError") =>
             /\ pc' = "failed"
             /\ history' = history
             /\ scratch' = scratch
             /\ steps' = steps
             /\ last_tool_result' = last_tool_result
             /\ output' = output
             /\ guardrail_flags' = guardrail_flags
             /\ response' = None
       /\ (pc = "failed" /\ error = "CapabilityError") =>
             /\ response = None
             /\ output = None
             /\ trace' = <<>>]_vars

\* the model raised in the research visit that followed a tool run, in a
\* session that has a stored record
C19_Witness ==
    /\ pc = "failed"
    /\ error = "CapabilityError"
    /\ steps = 1
    /\ last_tool_result # None
    /\ files[session_id] # NoFile

\* the content of the last assistant message of the turn
FinalText ==
    LET idx == {i \in 1..Len(history) : history[i].role = "assistant"} IN
    history[CHOOSE i \in idx : \A j \in idx : j <= i].content

ToolVisits == {i \in 1..Len(trace) : trace[i].node = "tool" /\ trace[i].calls # <<>>}

\* C21: last_tool_result is null exactly when no TOOL visit of the turn has
\* dequeued a call; after a TOOL visit that dequeued a call it is the result
\* of that call, the one the tool message of the visit shows, and the
\* response carries the result of the last call executed.
C21_LastToolResultIsLastCall ==
    /\ last_tool_result = None <=> ToolVisits = {}
    /\ ToolVisits # {} =>
          LET call == trace[CHOOSE i \in ToolVisits : \A j \in ToolVisits : j <= i].calls[1]
              shown == _get_last_by_role(history, "tool")
          IN  /\ last_tool_result = call_tool_body(call.v["tool"].v, call.v["args"].v)
              /\ shown = <<call.v["tool"].v, ": ">> \o PyRepr(last_tool_result)
    /\ response # None => response.v.last_tool_result = last_tool_result

\* C22: the output of every completed turn contains "not financial advice"
\* in any letter case.  GUARD appends the disclaimer after one blank line
\* (following the reviewed text without its trailing whitespace) exactly
\* when the reviewed text lacks the phrase, and otherwise returns the
\* reviewed text unchanged.
C22_OutputCarriesDisclaimer ==
    pc = "done" =>
        LET has == Contains(Lower(FinalText), NOT_FINANCIAL_ADVICE)
            sep == <<"\n", "\n">>
            tl  == Len(sep) + Len(DISCLAIMER)
            n   == Len(output.v)
        IN  /\ Contains(Lower(output.v), NOT_FINANCIAL_ADVICE)
            /\ response.v.output = output
            /\ has => output.v = FinalText
            /\ ~has =>
                  /\ n >= tl
                  /\ SubSeq(output.v, n - tl + 1, n) = sep \o DISCLAIMER
                  /\ IsPrefix(SubSeq(output.v, 1, n - tl), FinalText)
                  /\ \A i \in (n - tl + 1)..Len(FinalText) : IsSpace(FinalText[i])
                  /\ n > tl => ~IsSpace(output.v[n - tl])

\* a completed turn whose reviewed text lacked the phrase and ended in
\* whitespace, and one whose reviewed text carried it already
C22_Witness ==
    /\ pc = "done"
    /\ ~Contains(Lower(FinalText), NOT_FINANCIAL_ADVICE)
    /\ Len(FinalText) > 0
    /\ IsSpace(FinalText[Len(FinalText)])

C22_WitnessUnchanged ==
    /\ pc = "done"
    /\ Contains(Lower(FinalText), NOT_FINANCIAL_ADVICE)
    /\ output.v = FinalText

(***************************************************************************)
(* Turns whose drafts carry every shape of proposal: lists of at most one  *)
(* item of any shape, and the blocks that are no JSON list.                *)
(***************************************************************************)
QueueDrafts == {out \in LlmOutputs : ItemCount(out) <= 1}

NextQueue ==
    \/ \E sid \in SessionIds, question \in Questions :
          RunGraphEnter(sid, question) /\ UNCHANGED Others
    \/ \E out \in QueueDrafts : NodeResearch(out) /\ UNCHANGED Others
    \/ NodeTool /\ UNCHANGED Others
    \/ \E rewritten \in LlmReviews : NodeReview(rewritten) /\ UNCHANGED Others
    \/ NodeGuard /\ UNCHANGED Others
    \/ RunGraphReturn /\ UNCHANGED Others

SpecQueue == Init /\ [][NextQueue]_vars

\* the calls waiting in the scratch map's tool_queue
Queued == DictGet(scratch, "tool_queue", Arr(<<>>))

\* the tool name node_tool reads from a queued call
NameOf(call) == PyOr(DictGet(call, "tool", None), DictGet(call, "tool_name", None))

InvalidSchema == ErrorDict("Invalid tool call schema.")

\* C23: TOOL is never entered with an empty tool queue, so no TOOL visit
\* takes the no-op branch; every call waiting in the queue, hence every call
\* TOOL dequeues, has a non-empty tool name, and the result
\* "Invalid tool call schema." is never produced.
C23_ToolEnteredWithNamedCall ==
    /\ pc = "tool" => Queued.t = "arr" /\ Queued.v # <<>>
    /\ \A i \in 1..Len(trace) : trace[i].node = "tool" => trace[i].calls # <<>>
    /\ pc \in {"research", "tool", "review", "guard"} /\ trace # <<>> =>
          /\ Queued.t = "arr"
          /\ \A k \in 1..Len(Queued.v) : IsDict(Queued.v[k]) /\ Truthy(NameOf(Queued.v[k]))
    /\ \A i \in 1..Len(trace) : \A k \in 1..Len(trace[i].calls) :
          Truthy(NameOf(trace[i].calls[k]))
    /\ last_tool_result # InvalidSchema
    /\ \A i \in 1..Len(history) :
          history[i].role = "tool" => ~Contains(history[i].content, PyRepr(InvalidSchema))

\* a completed turn in which TOOL dequeued a call and a research visit's
\* one proposed item (one with no name among them) was dropped
C23_Witness ==
    /\ ToolVisits # {}
    /\ \E i \in 1..Len(trace) :
          trace[i].node = "research" /\ trace[i].items = 1 /\ trace[i].calls = <<>>
    /\ pc = "done"

\* the last RESEARCH visit at or before place i of the trace (0 if none)
LastResearch(i) ==
    LET idx == {j \in 1..i : trace[j].node = "research"} IN
    IF idx = {} THEN 0 ELSE CHOOSE j \in idx : \A k \in idx : k <= j

\* C24: the calls a session record's tool_queue held when the turn began are
\* never executed.  From the first RESEARCH visit on the queue holds what
\* the latest RESEARCH visit proposed and TOOL has not yet dequeued, and
\* every call TOOL executes is the next proposal of the RESEARCH visit
\* before it in the same turn.
C24_StoredQueueNeverExecuted ==
    /\ trace # <<>> =>
          LET n == Len(trace)
              j == LastResearch(n)
          IN  /\ j > 0
              /\ \A k \in (j + 1)..n : trace[k].node = "tool" => trace[k].calls # <<>>
              /\ pc \in {"research", "tool"} =>
                    Queued = Arr(SubSeq(trace[j].calls, n - j + 1, Len(trace[j].calls)))
    /\ \A i \in ToolVisits :
          LET j == LastResearch(i) IN
          /\ j > 0
          /\ \A k \in (j + 1)..i : trace[k].node = "tool"
          /\ i - j <= Len(trace[j].calls)
          /\ trace[i].calls[1] = trace[j].calls[i - j]

\* a turn that began with a call waiting in the stored queue, whose first
\* RESEARCH visit proposed nothing: it completed with no TOOL visit
C24_Witness ==
    /\ pc = "done"
    /\ IsDict(prior)
    /\ Truthy(DictGet(prior, "tool_queue", Arr(<<>>)))
    /\ trace[1].calls = <<>>
    /\ ToolVisits = {}

\* a turn that began with a stored call and executed its own proposal
C24_WitnessOwnCall ==
    /\ IsDict(prior)
    /\ Truthy(DictGet(prior, "tool_queue", Arr(<<>>)))
    /\ ToolVisits # {}
    /\ last_tool_result # None

\* the record the session's file holds, as json.loads gives it
Persisted == JsonLoads(files[session_id])

\* C25: after a completed turn the session's record is the scratch map read
\* at the start of the turn with tool_queue set to the empty list: every
\* other key of that map is kept with its value, no other key is added, and
\* the stored tool queue is empty.
C25_RecordIsPriorWithEmptyQueue ==
    pc = "done" =>
        /\ IsDict(prior)
        /\ files[session_id] # NoFile
        /\ Persisted.ok /\ IsDict(Persisted.val)
        /\ DOMAIN Persisted.val.v = DOMAIN prior.v \cup {"tool_queue"}
        /\ \A k \in DOMAIN prior.v \ {"tool_queue"} : Persisted.val.v[k] = prior.v[k]
        /\ Persisted.val.v["tool_queue"] = Arr(<<>>)
        /\ scratch = Persisted.val

\* a completed turn that executed a call and began from a record holding a
\* note and a non-empty tool queue
C25_Witness ==
    /\ pc = "done"
    /\ prior = StoredQueue
    /\ ToolVisits # {}
    /\ Persisted.val.v["note"] = Str("prefers bullets")

====
